---- MODULE Spec2Model ----
(***************************************************************************)
(* Gesture-driven visual effect layer: the App component's detection loop  *)
(* (pose signal, OK-gesture mode switch, hover tab) and the Visualizer     *)
(* component's three per-frame simulations (jellyfish, snow, rain).        *)
(*                                                                         *)
(* Units.  Normalised coordinates and distances (landmarks, pose x / y,    *)
(* pinchDistance) are integers in thousandths.  Snow lengths (flake y,     *)
(* fall speed, ground heights) are in hundredths of a pixel, so that the   *)
(* mound contribution (1 - |r|/radius) * size/2 and the melt power         *)
(* 3 * (1 - dist/50) are integers.  Rain drop y and speed are pixels;      *)
(* splash y and vy are half pixels (gravity 0.5 is one unit).  Bubble and  *)
(* ripple alpha count steps of 0.02, splash life counts steps of 0.05; the *)
(* IEEE-754 sequences 0.8-0.02k, 1-0.02k and 1-0.05k first drop to <= 0 at *)
(* k = 40, 50 and 20, as the integer counters do.  Wall-clock time is in   *)
(* milliseconds.                                                           *)
(*                                                                         *)
(* Fields that only feed drawing (positions of jellyfish and bubbles,      *)
(* spin, opacity, trail length, ripple radius) are left out.  A flake's    *)
(* horizontal position is a random walk (random vx plus a sine term) that  *)
(* is clamped to the canvas columns; the column it is over in a tick is    *)
(* drawn nondeterministically from the columns.                            *)
(*                                                                         *)
(* React.  A state update made by a handler and the re-render it causes    *)
(* (effect clean-ups, then effects in declaration order) are one step: a   *)
(* frame callback of the old render closure running in between reads only  *)
(* the closure and the Visualizer's refs, and so commutes with the handler.*)
(***************************************************************************)
EXTENDS Integers, Sequences, FiniteSets, TLC

VARIABLES
    mode,            \* App: useState<AppMode>
    handData,        \* App: useState<HandData>
    hoveredTab,      \* App: useState<AppMode | null>
    newVideoFrame,   \* video.currentTime !== lastVideoTimeRef.current
    requestRef,      \* App: id of the detection loop's scheduled frame
    lastSwitchTime,  \* App: lastSwitchTimeRef (ms)
    now,             \* Date.now() (ms)
    landmarker,      \* initializeHandLandmarker(): "loading", "ready", "failed"
    mounted,         \* the App (and its Visualizer) is mounted
    raf,             \* pending requestAnimationFrame callbacks
    innerWidth,      \* window.innerWidth  (canvas.width at every render)
    innerHeight,     \* window.innerHeight (canvas.height at every render)
    particles,       \* Visualizer: particlesRef
    ripples,         \* Visualizer: ripplesRef
    splashes,        \* Visualizer: splashesRef
    snowGround,      \* Visualizer: snowGroundRef (None, or Some(height per column))
    frameRef,        \* Visualizer: id of the render loop's scheduled frame
    wasOpen,         \* Visualizer: wasOpenRef
    obs              \* what the last step did (observation only, never read by the program)

vars == <<mode, handData, hoveredTab, newVideoFrame, requestRef, lastSwitchTime,
          now, landmarker, mounted, raf, innerWidth, innerHeight, particles,
          ripples, splashes, snowGround, frameRef, wasOpen, obs>>

appVars == <<mode, handData, hoveredTab, newVideoFrame, lastSwitchTime>>
simVars == <<particles, ripples, splashes, snowGround, wasOpen>>

(***************************************************************************)
(* Bounds of the model.                                                    *)
(***************************************************************************)
SnowWidth == 2        \* canvas columns (px)
SnowHeight == 2       \* canvas rows (px) in the snow specification
RainHeight == 150     \* canvas rows (px) in the other specifications
ClockTicks == 6       \* how many times the clock advances
MaxBubbleHosts == 1   \* leading creatures whose bubble draw may succeed
MaxBubbles == 1       \* bubbles a creature has when its bubble draw may succeed
MaxRain == 2          \* drops + ripples alive, at most, once new ones are made
MaxRainAtSwitch == 1  \* the same, in the specification of mode switches
MaxSplashDraws == 1   \* splashes alive, at most, once a hand splash is drawn
MaxFlakes == 50       \* flakes alive, at most, when a snow tick starts
MaxStaleFlakes == 8   \* the same, where the hand comes and goes in every mode
MaxDrops == 10        \* drops + ripples alive, at most, where the rain is heaviest

(***************************************************************************)
(* Program constants.                                                      *)
(***************************************************************************)
Null == "null"
\* a value that may be absent (null, undefined): <<>>, or <<v>>
None == <<>>
Some(v) == <<v>>
JELLYFISH == "JELLYFISH"
SNOW == "SNOW"
RAIN == "RAIN"
AppMode == {JELLYFISH, SNOW, RAIN}
TABS == <<JELLYFISH, SNOW, RAIN>>

PinchThreshold == 60      \* isPinching = pinchDistance < 0.06
MiddleExtended == 250     \* middleDist > 0.25
RingExtended == 250       \* ringDist > 0.25
PinkyExtended == 200      \* pinkyDist > 0.2
DebounceMs == 1500        \* now - lastSwitchTimeRef.current > 1500
HudBand == 200            \* y < 0.2
MaxJellyfish == 20        \* particlesRef.current.length < 20
BubbleAlpha == 40         \* alpha: 0.8, in steps of 0.02
RippleAlpha == 50         \* alpha: 1, in steps of 0.02
SplashLife == 20          \* life: 1.0, in steps of 0.05
WaterMargin == 100        \* waterLevel = canvas.height - 100
DropStartY == -50         \* y: -50
HandRippleBand == 20      \* handData.y * canvas.height > waterLevel - 20
BrushSize == 50           \* brushSize = 50
MeltPower == 300          \* power = 3 * (1 - dist/brushSize), in 1/100 px
AmbientFlakes == 2        \* for (i = 0; i < 2; i++)
HandFlakes == 3           \* for (i = 0; i < 3; i++)
FlakeStartY == -2000      \* createSnowflake(..., -20), in 1/100 px

\* Date.now() at start-up (far above the debounce window) and the clock's step
StartTime == 2 * DebounceMs
TimeStep == DebounceMs \div 2
MaxTime == StartTime + ClockTicks * TimeStep

(***************************************************************************)
(* Small helpers.                                                          *)
(***************************************************************************)
Abs(n) == IF n < 0 THEN -n ELSE n
Min(a, b) == IF a < b THEN a ELSE b
Max(a, b) == IF a > b THEN a ELSE b

\* the largest r in lo..hi with r * r <= n
RECURSIVE SqrtBetween(_, _, _)
SqrtBetween(n, lo, hi) ==
    IF lo = hi THEN lo
    ELSE LET mid == (lo + hi + 1) \div 2
         IN  IF mid <= n \div mid THEN SqrtBetween(n, mid, hi)
             ELSE SqrtBetween(n, lo, mid - 1)
\* Math.sqrt on the integer grid (exact on the perfect squares the inputs give)
Sqrt(n) == SqrtBetween(n, 0, n)

\* Math.sqrt(dx*dx + dy*dy)
Dist(p, q) == Sqrt((p.x - q.x) * (p.x - q.x) + (p.y - q.y) * (p.y - q.y))

(***************************************************************************)
(* App: the pose signal and the gestures (startDetectionLoop).             *)
(***************************************************************************)
InitialHandData ==
    [x |-> 500, y |-> 500, isPinching |-> FALSE, pinchDistance |-> 0,
     isPresent |-> FALSE, landmarks |-> None]

\* 1. Calculate Centroid: mean of landmarks 0, 5, 9, 13, 17, x mirrored
CentroidX(lm) == 1000 - ((lm[0].x + lm[5].x + lm[9].x + lm[13].x + lm[17].x) \div 5)
CentroidY(lm) == (lm[0].y + lm[5].y + lm[9].y + lm[13].y + lm[17].y) \div 5

\* 3. Pinch Detection (Thumb + Index)
PinchDistance(lm) == Dist(lm[8], lm[4])
\* (variant: pinching at the threshold too)
IsPinchingMutPinch(d) == d <= PinchThreshold
IsPinching(d) == d < PinchThreshold

\* (variant: the pinky is held to the threshold of the other two fingers)
IsOkGestureMutSymmetric(lm) ==
    /\ IsPinching(PinchDistance(lm))
    /\ Dist(lm[12], lm[0]) > MiddleExtended
    /\ Dist(lm[16], lm[0]) > RingExtended
    /\ Dist(lm[20], lm[0]) > RingExtended
\* 4. OK Sign Detection: pinching and the other three fingers far from the wrist
IsOkGesture(lm) ==
    /\ IsPinching(PinchDistance(lm))
    /\ Dist(lm[12], lm[0]) > MiddleExtended
    /\ Dist(lm[16], lm[0]) > RingExtended
    /\ Dist(lm[20], lm[0]) > PinkyExtended

\* (variant: every iteration of the loop runs detection)
ShouldDetectMutNoGate(ready, isNew) == ready
\* the webcam's video is there, and video.currentTime !== lastVideoTimeRef.current
ShouldDetect(ready, isNew) == ready /\ isNew

\* (variant: the cycle leaves RAIN out)
NextModeMutSkip(prevMode) ==
    IF prevMode = JELLYFISH THEN SNOW
    ELSE IF prevMode = SNOW THEN JELLYFISH
    ELSE JELLYFISH
\* setMode(prevMode => ...)
NextMode(prevMode) ==
    IF prevMode = JELLYFISH THEN SNOW
    ELSE IF prevMode = SNOW THEN RAIN
    ELSE JELLYFISH

\* (variant: the updater works on the mode the loop's closure was made with)
SwitchedModeMutStale(current) == NextMode(JELLYFISH)
\* setMode(prevMode => ...): the updater is given the mode current at that moment
SwitchedMode(current) == NextMode(current)

\* (variant: no debounce window)
SwitchAcceptedMutNoDebounce(lm, t, last) == IsOkGesture(lm)
\* if (isOkGesture && now - lastSwitchTimeRef.current > 1500)
SwitchAccepted(lm, t, last) == IsOkGesture(lm) /\ t - last > DebounceMs

NewHandData(lm) ==
    [x |-> CentroidX(lm), y |-> CentroidY(lm),
     isPinching |-> IsPinching(PinchDistance(lm)),
     pinchDistance |-> PinchDistance(lm),
     isPresent |-> TRUE, landmarks |-> Some(lm)]

\* (variant: the landmarks of the last hand stay in the pose)
AbsentHandDataMutStale(prev) == [prev EXCEPT !.isPresent = FALSE]
\* setHandData(prev => ({ ...prev, isPresent: false, landmarks: undefined }))
AbsentHandData(prev) == [prev EXCEPT !.isPresent = FALSE, !.landmarks = None]

\* (variant: the HUD band takes in y = 0.20)
TabHoverMutBand(data) ==
    IF data.y <= HudBand /\ data.isPresent
    THEN IF 3 * data.x < 1000 THEN TABS[1]
         ELSE IF 3 * data.x < 2000 THEN TABS[2]
         ELSE TABS[3]
    ELSE Null
\* handleTabHover
TabHover(data) ==
    IF data.y < HudBand /\ data.isPresent
    THEN IF 3 * data.x < 1000 THEN TABS[1]
         ELSE IF 3 * data.x < 2000 THEN TABS[2]
         ELSE TABS[3]
    ELSE Null

(***************************************************************************)
(* Detection results the model feeds in: no hand, or the landmarks of a    *)
(* hand whose palm is at mirrored position (cx, cy), with the thumb and    *)
(* index tips `gap` apart and the middle, ring and pinky tips mid, ring    *)
(* and pinky away from the wrist.                                          *)
(***************************************************************************)
Away(c, d) == IF c + d <= 1000 THEN c + d ELSE c - d
Hand(cx, cy, gap, mid, ring, pinky) ==
    LET wx == 1000 - cx
        palm == [x |-> wx, y |-> cy]
    IN  [i \in {0, 4, 5, 8, 9, 12, 13, 16, 17, 20} |->
            CASE i = 8 -> [x |-> Away(wx, gap), y |-> cy]
              [] i = 12 -> [x |-> Away(wx, mid), y |-> cy]
              [] i = 16 -> [x |-> Away(wx, ring), y |-> cy]
              [] i = 20 -> [x |-> Away(wx, pinky), y |-> cy]
              [] OTHER -> palm]

(***************************************************************************)
(* Visualizer: what the three simulations share.                           *)
(***************************************************************************)
\* (variant: the pose counts as open whether the hand is there or not)
IsOpenMutStale(hd) == ~hd.isPinching /\ ~(hd.y < HudBand)
\* isOpen = handData.isPresent && !handData.isPinching && !(handData.y < 0.2)
IsOpen(hd) == hd.isPresent /\ ~hd.isPinching /\ ~(hd.y < HudBand)

\* An entity of another simulation in a collection.  The reset effect keeps them
\* out; a tick is defined to pass one over, so that its result is a value on
\* any collection.
Foreign(p, kind) == p.kind # kind

\* every sequence of exactly n draws from S
Draws(S, n) == [1..n -> S]

Range(s) == {s[i] : i \in DOMAIN s}

(***************************************************************************)
(* renderJellyfish                                                         *)
(***************************************************************************)
NewJelly == [kind |-> "jelly", state |-> "FOLLOWING", bubbles |-> <<>>]

\* (variant: spawns at every tick of an open hand)
ShouldSpawnMutNoEdge(hd, wo, n) == IsOpen(hd) /\ n < MaxJellyfish
\* SPAWN LOGIC (Rising Edge Trigger)
ShouldSpawn(hd, wo, n) == IsOpen(hd) /\ ~wo /\ n < MaxJellyfish

\* (variant: a spawn makes every creature follow again)
SpawnJellyMutRecapture(parts, spawnCount) ==
    [i \in DOMAIN parts |->
        IF Foreign(parts[i], "jelly") THEN parts[i]
        ELSE [parts[i] EXCEPT !.state = "FOLLOWING"]]
    \o [k \in 1..spawnCount |-> NewJelly]
SpawnJelly(parts, spawnCount) == parts \o [k \in 1..spawnCount |-> NewJelly]

\* (variant: frees only when the hand is absent)
ShouldFreeMutAbsentOnly(hd, wo) == ~hd.isPresent
\* STATE MANAGEMENT: the condition under which FOLLOWING creatures are freed
ShouldFree(hd, wo) == (~IsOpen(hd) /\ wo) \/ ~hd.isPresent

\* (variant: a creature that follows goes on following)
FreeOneMutKeep(p, hd) == p
FreeOne(p, hd) ==
    IF ~Foreign(p, "jelly") /\ p.state = "FOLLOWING"
    THEN [p EXCEPT !.state = "FREE"] ELSE p

\* A freed creature's velocity, in 1/10000 px a tick, rounded to the nearest as
\* the doubles are on their finer grid.  A draw r of Math.random() is in 1/1000000.
\* p.vx = (Math.random() - 0.5) * 6
FreeVelocity(r) == ((r - 500000) * 6) \div 100
\* jelly.vx *= 0.98
Damp(v) == (98 * v + 50) \div 100
\* Math.sin(time * 2 + jelly.phase) * 0.05, the sine (or cosine) in 1/10000
Drift(s) == (5 * s) \div 100
\* the velocity at the end of the tick that freed the creature: rs are the two
\* draws, d the sine and cosine at time * 2 + jelly.phase
EndVelocity(rs, d) ==
    [vx |-> Damp(FreeVelocity(rs[1])) + Drift(d.sin),
     vy |-> Damp(FreeVelocity(rs[2])) + Drift(d.cos)]

FreeAll(parts, hd, wo) ==
    IF ShouldFree(hd, wo) THEN [i \in DOMAIN parts |-> FreeOne(parts[i], hd)]
    ELSE parts

\* (variant: bubbles that ran out are not removed)
FadeBubblesMutLeak(bs) == [i \in DOMAIN bs |-> bs[i] - 1]
\* bubble.alpha -= 0.02; if (bubble.alpha <= 0) splice
FadeBubbles(bs) ==
    LET faded == [i \in DOMAIN bs |-> bs[i] - 1]
    IN  SelectSeq(faded, LAMBDA a : ~(a <= 0))

\* UPDATE: 2. Bubble Logic (emits: Math.random() < 0.15 came out true)
UpdateJelly(jelly, emits) ==
    IF Foreign(jelly, "jelly") THEN jelly
    ELSE [jelly EXCEPT !.bubbles =
            FadeBubbles(IF emits THEN Append(@, BubbleAlpha) ELSE @)]

\* The creatures whose bubble draw may succeed in this tick
Hosts(parts, cfg) ==
    {i \in DOMAIN parts : /\ i <= cfg.bubbleHosts
                          /\ ~Foreign(parts[i], "jelly")
                          /\ Len(parts[i].bubbles) < cfg.maxBubbles}

JellyTick(hd, parts, wo, spawnCount, emitters, rs, d) ==
    LET spawns == ShouldSpawn(hd, wo, Len(parts))
        spawned == IF spawns THEN SpawnJelly(parts, spawnCount) ELSE parts
        freed == FreeAll(spawned, hd, wo)
    IN  [particles |-> [i \in DOMAIN freed |-> UpdateJelly(freed[i], i \in emitters)],
         wasOpen |-> IsOpen(hd),
         spawned |-> IF spawns THEN spawnCount ELSE 0,
         freed |-> Len(SelectSeq(spawned, LAMBDA p : ~Foreign(p, "jelly") /\ p.state = "FOLLOWING"))
                   - Len(SelectSeq(freed, LAMBDA p : ~Foreign(p, "jelly") /\ p.state = "FOLLOWING")),
         crossed |-> 0,
         faded |-> Len(SelectSeq(freed, LAMBDA p : ~Foreign(p, "jelly") /\ 1 \in Range(p.bubbles))),
         fell |-> 0,
         still |-> freed # spawned /\ EndVelocity(rs, d) = [vx |-> 0, vy |-> 0]]

\* (variant: a spawn may also add five)
SpawnCountsMutFive == {3, 4, 5}
\* spawnCount = Math.floor(Math.random() * 2) + 3
SpawnCounts == {3, 4}

\* rs, d: the draws and the phase of the first creature the tick frees
RenderJellyfish(cfg, hd, parts, wo) ==
    UNION { { JellyTick(hd, parts, wo, n, e, rs, d) :
                e \in SUBSET Hosts(IF ShouldSpawn(hd, wo, Len(parts))
                                   THEN SpawnJelly(parts, n) ELSE parts, cfg),
                rs \in cfg.freeRandoms, d \in cfg.drifts } :
            n \in SpawnCounts }

(***************************************************************************)
(* renderSnow.  Lengths in 1/100 px; ground[c + 1] is the height of        *)
(* column c.                                                               *)
(***************************************************************************)
\* createSnowflake: isBig = Math.random() > 0.95
\*   vy: 2.2 + random * 1.5 (big), 0.3 + random * 0.8 (particle)
\*   size: 8 + random * 12 (big), 1 + random * 3 (particle)
CreateSnowflake(y, isBig) ==
    [kind |-> "flake", y |-> y,
     vy |-> IF isBig THEN 300 ELSE 100,
     size |-> IF isBig THEN 8 ELSE 2,
     isParticle |-> ~isBig]

\* new Float32Array(canvas.width).fill(canvas.height)
FreshGround(w, h) == [c \in 1..w |-> 100 * h]

\* if (!snowGroundRef.current || snowGroundRef.current.length !== canvas.width)
EnsureGround(ref, w, h) ==
    IF ref = None \/ Len(ref[1]) # w THEN FreshGround(w, h) ELSE ref[1]

\* gx = Math.max(0, Math.min(canvas.width - 1, Math.floor(p.x)))
Columns(w) == IF w = 0 THEN {0} ELSE 0..(w - 1)

\* if (p.y >= groundLevel - (p.size * 0.5)); an undefined ground[gx] compares false
Lands(p, ground, gx) ==
    /\ (gx + 1) \in DOMAIN ground
    /\ p.y >= ground[gx + 1] - 50 * p.size

\* contribution = (1 - (Math.abs(r) / radius)) * (p.size * 0.5), radius = floor(size * 2)
Contribution(size, r) ==
    LET radius == 2 * size
    IN  ((radius - Abs(r)) * 50 * size) \div radius

\* (variant: no clamp at 0)
LowerMutNoClamp(h, c) == h - c
\* ground[idx] -= contribution; if (ground[idx] < 0) ground[idx] = 0
Lower(h, c) == IF h - c < 0 THEN 0 ELSE h - c

\* LANDED: add a mound around the collision point
Mound(ground, gx, size) ==
    [i \in DOMAIN ground |->
        IF Abs((i - 1) - gx) <= 2 * size
        THEN Lower(ground[i], Contribution(size, (i - 1) - gx))
        ELSE ground[i]]

\* 3. Update Particles, from the last flake to the first.  st is the set of
\* [ground, kept] the flakes after i can leave behind (kept in index order).
RECURSIVE SnowLoop(_, _, _, _)
SnowLoop(parts, i, w, st) ==
    IF i = 0 THEN st
    ELSE LET p == parts[i]
             moved == IF Foreign(p, "flake") THEN p ELSE [p EXCEPT !.y = @ + p.vy]
             step(s) ==
                 IF Foreign(p, "flake")
                 THEN {[ground |-> s.ground, kept |-> <<moved>> \o s.kept]}
                 ELSE { IF Lands(moved, s.ground, gx)
                        THEN [ground |-> Mound(s.ground, gx, moved.size),
                              kept |-> s.kept]
                        ELSE [ground |-> s.ground, kept |-> <<moved>> \o s.kept] :
                        gx \in Columns(w) }
         IN  SnowLoop(parts, i - 1, w, UNION { step(s) : s \in st })

\* (variant: no cap at the canvas height)
RaiseMutNoCap(g, power, h) == g + power
\* ground[idx] = Math.min(canvas.height, ground[idx] + power)
Raise(g, power, h) == Min(100 * h, g + power)

\* 4. Erase/Melt Snow Logic
Melt(ground, hd, w, h) ==
    LET hx == (hd.x * w) \div 1000
    IN  IF hd.isPresent /\ hd.y * h > 700 * h
        THEN [i \in DOMAIN ground |->
                IF Abs((i - 1) - hx) <= BrushSize
                THEN Raise(ground[i],
                           (MeltPower * (BrushSize - Abs((i - 1) - hx))) \div BrushSize, h)
                ELSE ground[i]]
        ELSE ground

\* y of a flake spawned at the hand: handY + (Math.random() - 0.5) * 60, here handY
HandFlakeY(hd, h) == (hd.y * h) \div 10

RenderSnow(cfg, hd, w, h, parts, ground) ==
    LET open == IsOpen(hd)
        handKinds == Draws(cfg.bigAtHand, IF open THEN HandFlakes ELSE 0)
    IN  IF Len(parts) > cfg.maxFlakes THEN {} ELSE
        UNION { UNION {
          LET ambient == [k \in 1..AmbientFlakes |-> CreateSnowflake(FlakeStartY, ak[k])]
              atHand == [k \in DOMAIN hk |-> CreateSnowflake(HandFlakeY(hd, h), hk[k])]
              all == parts \o ambient \o atHand
          IN  { [particles |-> o.kept,
                 snowGround |-> Melt(o.ground, hd, w, h),
                 spawned |-> AmbientFlakes + Len(hk), freed |-> 0,
                 crossed |-> Len(all) - Len(o.kept), faded |-> 0, fell |-> 0] :
                o \in SnowLoop(all, Len(all), w, {[ground |-> ground, kept |-> <<>>]}) } :
          hk \in handKinds } : ak \in Draws(cfg.bigAmbient, AmbientFlakes) }

(***************************************************************************)
(* renderRain.  Drop y and speed in px; splash y and vy in half px.        *)
(***************************************************************************)
WaterLevel(h) == h - WaterMargin

\* (variant: the openness counts whether the hand is open or not)
IntensityMutNotGated(hd) == Min(Max((hd.pinchDistance - 20) * 4, 0), 1000)
\* openness = Math.min(Math.max((handData.pinchDistance - 0.02) * 4, 0), 1), in 1/1000
\* (exact on thousandths; the doubles of the code round a few products the other
\* way, 0.12 gives 3 drops and not 4, none of them at a distance fed in here)
Intensity(hd) ==
    IF IsOpen(hd) THEN Min(Max((hd.pinchDistance - 20) * 4, 0), 1000) ELSE 0

\* spawnRate = Math.floor(intensity * 10)
SpawnRate(hd) == (Intensity(hd) * 10) \div 1000

NewDrop(speed) == [kind |-> "drop", y |-> DropStartY, speed |-> speed]
DropRipple == [alpha |-> RippleAlpha, isHand |-> FALSE]
HandRipple == [alpha |-> RippleAlpha, isHand |-> TRUE]
Splash(y2, vy2, src) == [y |-> y2, vy |-> vy2, life |-> SplashLife, src |-> src]

\* p.y += p.speed
Fall(p) == IF Foreign(p, "drop") THEN p ELSE [p EXCEPT !.y = @ + p.speed]

\* (variant: no drop ever crosses)
CrossesMutNever(p, h) == FALSE
\* if (p.y > waterLevel)
Crosses(p, h) == ~Foreign(p, "drop") /\ p.y > WaterLevel(h)

\* (variant: two splashes for a drop)
SplashesPerDropMutTwo(vys, h) ==
    [k \in 1..2 |-> Splash(2 * WaterLevel(h), vys[k], "drop")]
\* for (s = 0; s < 3; s++) splashesRef.current.push(...)
SplashesPerDrop(vys, h) ==
    [k \in 1..3 |-> Splash(2 * WaterLevel(h), vys[k], "drop")]

RECURSIVE Repeat(_, _)
Repeat(s, n) == IF n = 0 THEN <<>> ELSE s \o Repeat(s, n - 1)

\* if (handData.isPresent && handData.y * canvas.height > waterLevel - 20)
HandAtWater(hd, h) ==
    hd.isPresent /\ hd.y * h > 1000 * (WaterLevel(h) - HandRippleBand)

\* (variant: a ripple is removed one tick late)
FadeRipplesMutLate(rips) ==
    LET faded == [i \in DOMAIN rips |-> [rips[i] EXCEPT !.alpha = @ - 1]]
    IN  SelectSeq(faded, LAMBDA r : ~(r.alpha < 0))
\* rip.alpha -= 0.02; if (rip.alpha <= 0) splice
FadeRipples(rips) ==
    LET faded == [i \in DOMAIN rips |-> [rips[i] EXCEPT !.alpha = @ - 1]]
    IN  SelectSeq(faded, LAMBDA r : ~(r.alpha <= 0))

\* s.y += s.vy; s.vy += 0.5; s.life -= 0.05; if (s.life <= 0 || s.y > canvas.height) splice
MoveSplashes(spl, h) ==
    LET moved == [i \in DOMAIN spl |->
                    [spl[i] EXCEPT !.y = @ + spl[i].vy, !.vy = @ + 1, !.life = @ - 1]]
    IN  SelectSeq(moved, LAMBDA q : ~(q.life <= 0 \/ q.y > 2 * h))

RainTick(hd, h, parts, rips, spl, speeds, vys, handVy, handRipple, handSplash) ==
    LET all == parts \o [k \in DOMAIN speeds |-> NewDrop(speeds[k])]
        fallen == [i \in DOMAIN all |-> Fall(all[i])]
        crossed == Len(SelectSeq(fallen, LAMBDA p : Crosses(p, h)))
        rips1 == rips \o [k \in 1..crossed |-> DropRipple]
        spl1 == spl \o Repeat(SplashesPerDrop(vys, h), crossed)
        rips2 == IF handRipple THEN Append(rips1, HandRipple) ELSE rips1
        spl2 == IF handSplash
                THEN Append(spl1, Splash((2 * hd.y * h) \div 1000, handVy, "hand"))
                ELSE spl1
    IN  [particles |-> SelectSeq(fallen, LAMBDA p : ~Crosses(p, h)),
         ripples |-> FadeRipples(rips2),
         splashes |-> MoveSplashes(spl2, h),
         spawned |-> Len(speeds), freed |-> 0, crossed |-> crossed,
         faded |-> Len(rips2) - Len(FadeRipples(rips2))
                   + Len(SelectSeq(spl2, LAMBDA q : q.life <= 1)),
         fell |-> Len(SelectSeq(spl2, LAMBDA q : q.life > 1 /\ q.y + q.vy > 2 * h))]

RenderRain(cfg, hd, h, parts, rips, spl) ==
    LET rate == SpawnRate(hd)
        room == rate = 0 \/ Len(parts) + Len(rips) + rate <= cfg.maxRain
        atWater == HandAtWater(hd, h)
        ripDraws == IF atWater /\ Len(parts) + Len(rips) + rate < cfg.maxRain
                    THEN BOOLEAN ELSE {FALSE}
        splDraws == IF atWater /\ Len(spl) < cfg.maxSplashDraws
                    THEN BOOLEAN ELSE {FALSE}
    IN  IF ~room THEN {}
        ELSE { RainTick(hd, h, parts, rips, spl, sp, vys, hv, hr, hs) :
                 sp \in Draws(cfg.dropSpeeds, rate),
                 vys \in Draws(cfg.splashVy, 3),
                 hv \in cfg.handSplashVy,
                 hr \in ripDraws, hs \in splDraws }

(***************************************************************************)
(* Visualizer: the reset effect and render().                              *)
(***************************************************************************)
SimState == [particles |-> particles, ripples |-> ripples, splashes |-> splashes,
             snowGround |-> snowGround, wasOpen |-> wasOpen]

\* useEffect(() => { ... }, [mode]): Reset systems on mode change
ResetSystems ==
    [particles |-> <<>>, ripples |-> <<>>, splashes |-> <<>>,
     snowGround |-> None, wasOpen |-> FALSE]

\* (variant: the reset effect does nothing)
AtEffectStartMutNoReset(S, modeChanged) == S
\* What render() finds when the render effect starts after a commit: the reset
\* effect is declared first, so it has run already if mode changed.
AtEffectStart(S, modeChanged) == IF modeChanged THEN ResetSystems ELSE S

KindOf(m) == IF m = JELLYFISH THEN "jelly" ELSE IF m = SNOW THEN "flake" ELSE "drop"

\* Something left over from another mode is in the refs this tick reads
SeesForeign(m, S) ==
    \/ \E i \in DOMAIN S.particles : Foreign(S.particles[i], KindOf(m))
    \/ m # RAIN /\ (S.ripples # <<>> \/ S.splashes # <<>>)
    \/ m # SNOW /\ S.snowGround # None

\* render(): one tick of the active simulation; the set of its possible results
Render(cfg, m, hd, w, h, S) ==
    LET info(o) == [ticked |-> TRUE, tickMode |-> m, foreign |-> SeesForeign(m, S),
                    spawned |-> o.spawned, freed |-> o.freed, crossed |-> o.crossed,
                    faded |-> o.faded, fell |-> o.fell, left |-> 0,
                    still |-> m = JELLYFISH /\ o.still]
    IN  IF m = JELLYFISH THEN
            { [S EXCEPT !.particles = o.particles, !.wasOpen = o.wasOpen]
                @@ [info |-> info(o)] :
              o \in RenderJellyfish(cfg, hd, S.particles, S.wasOpen) }
        ELSE IF m = SNOW THEN
            { [S EXCEPT !.particles = o.particles, !.snowGround = Some(o.snowGround)]
                @@ [info |-> info(o)] :
              o \in RenderSnow(cfg, hd, w, h, S.particles,
                               EnsureGround(S.snowGround, w, h)) }
        ELSE
            { [S EXCEPT !.particles = o.particles, !.ripples = o.ripples,
                        !.splashes = o.splashes]
                @@ [info |-> info(o)] :
              o \in RenderRain(cfg, hd, h, S.particles, S.ripples, S.splashes) }

NoTick == [ticked |-> FALSE, tickMode |-> Null, foreign |-> FALSE,
           spawned |-> 0, freed |-> 0, crossed |-> 0, faded |-> 0, fell |-> 0,
           left |-> 0, still |-> FALSE]

\* How much the refs hold: entities, a snow ground, a set edge flag
Leftover(S) ==
    Len(S.particles) + Len(S.ripples) + Len(S.splashes) + Len(S.snowGround)
    + (IF S.wasOpen THEN 1 ELSE 0)

(***************************************************************************)
(* Frame callbacks.  An id matters only by identity: a new one is the      *)
(* least id that no pending callback and neither ref holds.                *)
(***************************************************************************)
FreshId(pending, held) ==
    CHOOSE i \in 1..(Cardinality(pending) + Cardinality(held) + 1) :
        /\ i \notin held
        /\ \A cb \in pending : cb.id # i

\* (variant: the clean-up cancels nothing)
CancelMutNothing(pending, id) == pending
\* cancelAnimationFrame(id)
Cancel(pending, id) == {cb \in pending : cb.id # id}

\* requestAnimationFrame(fn)
Request(pending, id, fn) == pending \cup {[id |-> id, fn |-> fn]}

(***************************************************************************)
(* The initial state: after the first render of App and Visualizer, whose  *)
(* render effect has run render() once and scheduled the next frame.       *)
(***************************************************************************)
Constructed(w, h) ==
    /\ mode = JELLYFISH
    /\ handData = InitialHandData
    /\ hoveredTab = Null
    /\ newVideoFrame = TRUE
    /\ requestRef = 0
    /\ lastSwitchTime = 0
    /\ now = StartTime
    /\ landmarker = "loading"
    /\ mounted = TRUE
    /\ innerWidth = w
    /\ innerHeight = h
    /\ particles = <<>>
    /\ ripples = <<>>
    /\ splashes = <<>>
    /\ snowGround = None
    /\ wasOpen = FALSE
    /\ frameRef = 1
    /\ raf = {[id |-> 1, fn |-> "render"]}
    /\ obs = [op |-> "mount", det |-> "", ok |-> FALSE, accepted |-> FALSE, unmounted |-> FALSE,
              run |-> 0, from |-> JELLYFISH, at |-> -1, info |-> NoTick]

\* obs.op: the step; det: what an iteration of the detection loop did ("hand",
\* "none" when detection found no hand, "skipped" when it did not run detection,
\* "" for every other step); ok: it detected an OK gesture; accepted: it switched the mode
\* by gesture; unmounted: it ran with the App unmounted; info: its render() tick
\* (spawned, freed, crossed: entities made, creatures freed, flakes landed or
\* drops gone; faded: bubbles, ripples and splashes that ran out; fell: splashes
\* that left the frame; still: the first creature it freed ends the tick with
\* velocity (0, 0); left: how much the refs held when the step changed the
\* mode).
\* History: run / from: the gesture switches since the mode `from` was set at
\* start-up or by a tab (counted up to 3); at: the time of the last one (or -1).
Observe(op, det, ok, accepted, hist, info) ==
    obs' = [op |-> op, det |-> det, ok |-> ok, accepted |-> accepted, unmounted |-> ~mounted,
            run |-> hist.run, from |-> hist.from, at |-> hist.at, info |-> info]

Hist == [run |-> obs.run, from |-> obs.from, at |-> obs.at]

(***************************************************************************)
(* A commit of new props to the Visualizer: the render effect's clean-up   *)
(* cancels the scheduled frame, the reset effect runs if mode changed, and *)
(* the render effect calls render() and schedules the next frame.          *)
(* `pending` and `held` are the callbacks and ids the handler leaves.      *)
(***************************************************************************)
Commit(cfg, m, hd, pending, held, op, det, ok, accepted, hist) ==
    LET cleaned == Cancel(pending, frameRef)
        id == FreshId(cleaned, held)
    IN  \E o \in Render(cfg, m, hd, innerWidth, innerHeight,
                        AtEffectStart(SimState, m # mode)) :
            /\ particles' = o.particles
            /\ ripples' = o.ripples
            /\ splashes' = o.splashes
            /\ snowGround' = o.snowGround
            /\ wasOpen' = o.wasOpen
            /\ frameRef' = id
            /\ raf' = Request(cleaned, id, "render")
            /\ Observe(op, det, ok, accepted, hist,
                       [o.info EXCEPT !.left = IF m # mode THEN Leftover(SimState) ELSE 0])

\* The animation frame of the render loop fires: render() of the current closure
RenderFrame(cfg) ==
    \E cb \in raf :
        /\ cb.fn = "render"
        /\ LET rest == raf \ {cb}
               id == FreshId(rest, {requestRef})
           IN  \E o \in Render(cfg, mode, handData, innerWidth, innerHeight, SimState) :
                   /\ particles' = o.particles
                   /\ ripples' = o.ripples
                   /\ splashes' = o.splashes
                   /\ snowGround' = o.snowGround
                   /\ wasOpen' = o.wasOpen
                   /\ frameRef' = id
                   /\ raf' = Request(rest, id, "render")
                   /\ Observe("frame", "", FALSE, FALSE, Hist, o.info)
        /\ UNCHANGED <<appVars, requestRef, now, landmarker, mounted,
                       innerWidth, innerHeight>>

(***************************************************************************)
(* One iteration of the detection loop (loop in startDetectionLoop).       *)
(* `pending` is what is scheduled besides the iteration itself.            *)
(***************************************************************************)
Loop(cfg, pending, op) ==
    LET loopId == FreshId(pending, {frameRef})
        after == Request(pending, loopId, "loop")
    IN  /\ requestRef' = loopId
        /\ UNCHANGED <<now, mounted, innerWidth, innerHeight>>
        /\ \/ \* the webcam is gone or not ready, or the video frame is not new
              /\ UNCHANGED <<appVars, simVars, frameRef>>
              /\ raf' = after
              /\ Observe(op, "skipped", FALSE, FALSE, Hist, NoTick)
           \/ \* a new video frame with a hand
              /\ ShouldDetect(mounted, newVideoFrame)
              /\ newVideoFrame' = FALSE
              /\ \E lm \in cfg.hands :
                    LET accepted == SwitchAccepted(lm, now, lastSwitchTime)
                        m == IF accepted THEN SwitchedMode(mode) ELSE mode
                        hd == NewHandData(lm)
                        wraps == obs.run = 3
                        hist == IF ~accepted THEN Hist
                                ELSE [run |-> IF wraps THEN 1 ELSE obs.run + 1,
                                      from |-> IF wraps THEN mode ELSE obs.from,
                                      at |-> now]
                    IN  /\ mode' = m
                        /\ lastSwitchTime' = IF accepted THEN now ELSE lastSwitchTime
                        /\ handData' = hd
                        /\ hoveredTab' = TabHover(hd)
                        /\ Commit(cfg, m, hd, after, {loopId}, op, "hand",
                                  IsOkGesture(lm), accepted, hist)
           \/ \* a new video frame without a hand
              /\ ShouldDetect(mounted, newVideoFrame) /\ cfg.noHand
              /\ newVideoFrame' = FALSE
              /\ handData' = AbsentHandData(handData)
              /\ hoveredTab' = Null
              /\ UNCHANGED <<mode, lastSwitchTime>>
              /\ Commit(cfg, mode, AbsentHandData(handData), after, {loopId}, op,
                        "none", FALSE, FALSE, Hist)

\* The animation frame of the detection loop fires
LoopFrame(cfg) ==
    /\ \E cb \in raf : cb.fn = "loop" /\ Loop(cfg, raf \ {cb}, "loop")
    /\ UNCHANGED landmarker

\* initializeHandLandmarker() resolves: startDetectionLoop runs loop() at once
LandmarkerReady(cfg) ==
    /\ landmarker = "loading"
    /\ Loop(cfg, raf, "start") /\ landmarker' = "ready"

\* initializeHandLandmarker() rejects: the loop is never started
LandmarkerFailed ==
    /\ landmarker = "loading"
    /\ landmarker' = "failed"
    /\ Observe("failed", "", FALSE, FALSE, Hist, NoTick)
    /\ UNCHANGED <<appVars, simVars, requestRef, now, mounted, raf,
                   innerWidth, innerHeight, frameRef>>

\* The webcam delivers a new frame: video.currentTime moves on
VideoFrame ==
    /\ mounted /\ ~newVideoFrame
    /\ newVideoFrame' = TRUE
    /\ Observe("video", "", FALSE, FALSE, Hist, NoTick)
    /\ UNCHANGED <<mode, handData, hoveredTab, lastSwitchTime, simVars, requestRef,
                   now, landmarker, mounted, raf, innerWidth, innerHeight, frameRef>>

\* The clock moves on
Advance ==
    /\ now + TimeStep <= MaxTime
    /\ now' = now + TimeStep
    /\ Observe("clock", "", FALSE, FALSE, Hist, NoTick)
    /\ UNCHANGED <<appVars, simVars, requestRef, landmarker, mounted, raf,
                   innerWidth, innerHeight, frameRef>>

\* HUDLayer: onClick={() => onTabSelect(tab.id)}, onTabSelect = setMode.
\* Selecting the current mode changes no state and causes no re-render.
TabSelect(cfg) ==
    \E m \in cfg.tabs :
        /\ mounted /\ m # mode
        /\ mode' = m
        /\ Commit(cfg, m, handData, raf, {requestRef}, "tab", "", FALSE, FALSE,
                  [run |-> 0, from |-> m, at |-> obs.at])
        /\ UNCHANGED <<handData, hoveredTab, newVideoFrame, lastSwitchTime, requestRef,
                       now, landmarker, mounted, innerWidth, innerHeight>>

\* The window is resized: window.innerWidth and window.innerHeight change, and
\* render() reads them at its next tick (nothing listens to the resize)
Resize(widths, heights) ==
    \E w \in widths, h \in heights :
        /\ <<w, h>> # <<innerWidth, innerHeight>>
        /\ innerWidth' = w
        /\ innerHeight' = h
        /\ Observe("resize", "", FALSE, FALSE, Hist, NoTick)
        /\ UNCHANGED <<appVars, simVars, requestRef, now, landmarker, mounted, raf,
                       frameRef>>

\* App unmounts: its effect clean-up cancels the detection loop's frame (if any
\* was requested) and the Visualizer's clean-up cancels the render loop's frame
Unmount ==
    /\ mounted
    /\ mounted' = FALSE
    /\ raf' = Cancel(IF requestRef # 0 THEN Cancel(raf, requestRef) ELSE raf, frameRef)
    /\ Observe("unmount", "", FALSE, FALSE, Hist, NoTick)
    /\ UNCHANGED <<appVars, simVars, requestRef, now, landmarker,
                   innerWidth, innerHeight, frameRef>>

(***************************************************************************)
(* Specifications.  Each fixes the window and the inputs it draws from:    *)
(* detection results, tabs clicked and outcomes of Math.random().          *)
(***************************************************************************)
\* hands: open high in the frame, open low in the frame, pinching, in the HUD
\* band (y < 0.2 is false at 0.2, so OpenHand is just below it), OK sign
OpenHand == Hand(500, 200, 60, 0, 0, 0)
LowHand == Hand(500, 900, 60, 0, 0, 0)
PinchHand == Hand(500, 500, 30, 0, 0, 0)
HudHand == Hand(500, 100, 60, 0, 0, 0)
OkHand == Hand(500, 500, 30, 300, 300, 300)
\* wide open (two drops a tick), and pinching near the bottom of the frame
WideHand == Hand(500, 200, 70, 0, 0, 0)
LowPinch == Hand(500, 900, 30, 0, 0, 0)
\* the OK sign made in the HUD band, over the middle tab
HudOkHand == Hand(500, 100, 30, 300, 300, 300)

\* Math.random() for the velocity of a freed creature, and the sine and cosine
\* of time * 2 + phase: a creature sent off to the right and upwards on a tide
\* that pulls down; one that gets no velocity of its own; one sent off against
\* a slanting tide
Swims == <<900000, 100000>>
Rests == <<500000, 500000>>
Counters == <<494900, 493200>>
Tide == [sin |-> 0, cos |-> 10000]
Slant == [sin |-> 6000, cos |-> 8000]

CfgApp ==
    [hands |-> {HudOkHand}, noHand |-> TRUE, tabs |-> AppMode,
     bubbleHosts |-> 0, maxBubbles |-> 0,
     bigAmbient |-> {FALSE}, bigAtHand |-> {FALSE},
     maxRain |-> 0, maxSplashDraws |-> 0, maxFlakes |-> MaxFlakes,
     freeRandoms |-> {Swims}, drifts |-> {Tide},
     dropSpeeds |-> {25}, splashVy |-> {-8}, handSplashVy |-> {-8}]

\* The whole application, on a window that has no height yet
Init == Constructed(SnowWidth, 0)

Next ==
    \/ RenderFrame(CfgApp)
    \/ LoopFrame(CfgApp)
    \/ LandmarkerReady(CfgApp)
    \/ LandmarkerFailed
    \/ VideoFrame
    \/ Advance
    \/ TabSelect(CfgApp)
    \/ Unmount

Spec == Init /\ [][Next]_vars

\* The jellyfish simulation under every kind of hand, with no bubbles drawn
CfgJelly ==
    [hands |-> {OpenHand, PinchHand, HudHand}, noHand |-> TRUE, tabs |-> {},
     bubbleHosts |-> 0, maxBubbles |-> 0,
     bigAmbient |-> {FALSE}, bigAtHand |-> {FALSE},
     maxRain |-> 0, maxSplashDraws |-> 0, maxFlakes |-> MaxFlakes,
     freeRandoms |-> {Swims, Rests, Counters}, drifts |-> {Tide, Slant},
     dropSpeeds |-> {25}, splashVy |-> {-8}, handSplashVy |-> {-8}]

InitJelly == Constructed(SnowWidth, RainHeight)

NextJelly ==
    \/ RenderFrame(CfgJelly)
    \/ LoopFrame(CfgJelly)
    \/ LandmarkerReady(CfgJelly)
    \/ VideoFrame

SpecJelly == InitJelly /\ [][NextJelly]_vars

\* The snow simulation on a small canvas: flakes pile up, a low hand melts
CfgSnow ==
    [hands |-> {LowHand}, noHand |-> TRUE, tabs |-> {SNOW},
     bubbleHosts |-> 0, maxBubbles |-> 0,
     bigAmbient |-> {FALSE}, bigAtHand |-> {FALSE, TRUE},
     maxRain |-> 0, maxSplashDraws |-> 0, maxFlakes |-> MaxFlakes,
     freeRandoms |-> {Swims}, drifts |-> {Tide},
     dropSpeeds |-> {25}, splashVy |-> {-8}, handSplashVy |-> {-8}]

InitSnow == Constructed(SnowWidth, SnowHeight)

NextSnow ==
    \/ RenderFrame(CfgSnow)
    \/ LoopFrame(CfgSnow)
    \/ LandmarkerReady(CfgSnow)
    \/ VideoFrame
    \/ TabSelect(CfgSnow)

SpecSnow == InitSnow /\ [][NextSnow]_vars

\* The snow simulation in a window that is resized between ticks, under a
\* pinching hand near the bottom of the frame, which melts and makes no flakes
CfgResize ==
    [hands |-> {LowPinch}, noHand |-> TRUE, tabs |-> {SNOW},
     bubbleHosts |-> 0, maxBubbles |-> 0,
     bigAmbient |-> {FALSE}, bigAtHand |-> {FALSE},
     maxRain |-> 0, maxSplashDraws |-> 0, maxFlakes |-> MaxFlakes,
     freeRandoms |-> {Swims}, drifts |-> {Tide},
     dropSpeeds |-> {25}, splashVy |-> {-8}, handSplashVy |-> {-8}]

InitResize == Constructed(SnowWidth, SnowHeight)

NextResize ==
    \/ RenderFrame(CfgResize)
    \/ LoopFrame(CfgResize)
    \/ LandmarkerReady(CfgResize)
    \/ VideoFrame
    \/ TabSelect(CfgResize)
    \/ Resize((SnowWidth - 1)..SnowWidth, (SnowHeight - 1)..SnowHeight)

SpecResize == InitResize /\ [][NextResize]_vars

\* The snow simulation on a canvas that has no width: the ground field has no
\* entry, so no flake finds a ground to land on
CfgNoWidth ==
    [hands |-> {LowPinch}, noHand |-> TRUE, tabs |-> {SNOW},
     bubbleHosts |-> 0, maxBubbles |-> 0,
     bigAmbient |-> {FALSE}, bigAtHand |-> {FALSE},
     maxRain |-> 0, maxSplashDraws |-> 0, maxFlakes |-> MaxFlakes,
     freeRandoms |-> {Swims}, drifts |-> {Tide},
     dropSpeeds |-> {25}, splashVy |-> {-8}, handSplashVy |-> {-8}]

InitNoWidth == Constructed(0, SnowHeight)

NextNoWidth ==
    \/ RenderFrame(CfgNoWidth)
    \/ LoopFrame(CfgNoWidth)
    \/ LandmarkerReady(CfgNoWidth)
    \/ VideoFrame
    \/ TabSelect(CfgNoWidth)

SpecNoWidth == InitNoWidth /\ [][NextNoWidth]_vars

\* How hard it rains: one detection result, kept for good (the webcam delivers
\* no second frame), of a hand open at the edges of the spawn rate (1 drop a
\* tick at the pinch threshold, 2, 9, 10, and 10 again when spread wider), of a
\* hand open in the HUD band, of a hand just pinching, or of no hand
NearPinch == Hand(500, 200, PinchThreshold - 1, 0, 0, 0)
RateHands ==
    {Hand(500, 200, gap, 0, 0, 0) : gap \in {PinchThreshold, 70, 269, 270, 400}}

CfgDrops ==
    [hands |-> RateHands \cup {HudHand, NearPinch}, noHand |-> TRUE, tabs |-> {RAIN},
     bubbleHosts |-> 0, maxBubbles |-> 0,
     bigAmbient |-> {FALSE}, bigAtHand |-> {FALSE},
     maxRain |-> MaxDrops, maxSplashDraws |-> 0, maxFlakes |-> MaxFlakes,
     freeRandoms |-> {Swims}, drifts |-> {Tide},
     dropSpeeds |-> {20, 25}, splashVy |-> {-8}, handSplashVy |-> {-8}]

InitDrops == Constructed(SnowWidth, RainHeight)

NextDrops ==
    \/ RenderFrame(CfgDrops)
    \/ LoopFrame(CfgDrops)
    \/ LandmarkerReady(CfgDrops)
    \/ TabSelect(CfgDrops)

SpecDrops == InitDrops /\ [][NextDrops]_vars

\* A hand that comes and goes in every mode, open high in the frame or pinching
\* near the bottom, on a canvas the snow can fill and on one high enough for
\* the rain to have a water line
CfgStale ==
    [hands |-> {OpenHand, LowPinch}, noHand |-> TRUE, tabs |-> AppMode,
     bubbleHosts |-> 0, maxBubbles |-> 0,
     bigAmbient |-> {FALSE}, bigAtHand |-> {FALSE},
     maxRain |-> MaxRainAtSwitch, maxSplashDraws |-> 0, maxFlakes |-> MaxStaleFlakes,
     freeRandoms |-> {Swims}, drifts |-> {Tide},
     dropSpeeds |-> {25}, splashVy |-> {-8}, handSplashVy |-> {-8}]

InitStale == Constructed(SnowWidth, SnowHeight) \/ Constructed(SnowWidth, RainHeight)

NextStale ==
    \/ RenderFrame(CfgStale)
    \/ LoopFrame(CfgStale)
    \/ LandmarkerReady(CfgStale)
    \/ VideoFrame
    \/ TabSelect(CfgStale)

SpecStale == InitStale /\ [][NextStale]_vars

\* Switching between the three simulations, by tab and by one OK gesture, with
\* every simulation holding entities: creatures under an open hand, flakes and
\* a ground, drops that turn into ripples and splashes at once (no height)
CfgSwitch ==
    [hands |-> {OpenHand, OkHand}, noHand |-> FALSE, tabs |-> AppMode,
     bubbleHosts |-> 0, maxBubbles |-> 0,
     bigAmbient |-> {FALSE}, bigAtHand |-> {FALSE},
     maxRain |-> MaxRainAtSwitch, maxSplashDraws |-> 0, maxFlakes |-> MaxFlakes,
     freeRandoms |-> {Swims}, drifts |-> {Tide},
     dropSpeeds |-> {25}, splashVy |-> {-8}, handSplashVy |-> {-8}]

InitSwitch == Constructed(SnowWidth, 0)

NextSwitch ==
    \/ RenderFrame(CfgSwitch)
    \/ LoopFrame(CfgSwitch)
    \/ LandmarkerReady(CfgSwitch)
    \/ VideoFrame
    \/ TabSelect(CfgSwitch)

SpecSwitch == InitSwitch /\ [][NextSwitch]_vars

\* Bubbles, then rain: drops fall in pairs at two speeds and turn into ripples
\* and splashes; a pinching hand near the bottom stops the rain and stirs the
\* water (its splashes start with no upward speed)
CfgRain ==
    [hands |-> {WideHand, LowPinch}, noHand |-> FALSE, tabs |-> {RAIN},
     bubbleHosts |-> MaxBubbleHosts, maxBubbles |-> MaxBubbles,
     bigAmbient |-> {FALSE}, bigAtHand |-> {FALSE},
     maxRain |-> MaxRain, maxSplashDraws |-> MaxSplashDraws, maxFlakes |-> MaxFlakes,
     freeRandoms |-> {Swims}, drifts |-> {Tide},
     dropSpeeds |-> {20, 25}, splashVy |-> {-8}, handSplashVy |-> {0}]

InitRain == Constructed(SnowWidth, RainHeight)

NextRain ==
    \/ RenderFrame(CfgRain)
    \/ LoopFrame(CfgRain)
    \/ LandmarkerReady(CfgRain)
    \/ VideoFrame
    \/ TabSelect(CfgRain)

SpecRain == InitRain /\ [][NextRain]_vars

\* Poses at the thresholds of the gestures, all with the palm in the HUD band:
\* the OK sign with every distance just on the right side of its threshold, and
\* the same hand with one distance at its threshold
EdgeOk == Hand(500, 100, PinchThreshold - 1, MiddleExtended + 1, RingExtended + 1,
               PinkyExtended + 1)
EdgeGap == Hand(500, 100, PinchThreshold, MiddleExtended + 1, RingExtended + 1,
                PinkyExtended + 1)
EdgeMiddle == Hand(500, 100, PinchThreshold - 1, MiddleExtended, RingExtended + 1,
                   PinkyExtended + 1)
EdgeRing == Hand(500, 100, PinchThreshold - 1, MiddleExtended + 1, RingExtended,
                 PinkyExtended + 1)
EdgePinky == Hand(500, 100, PinchThreshold - 1, MiddleExtended + 1, RingExtended + 1,
                  PinkyExtended)
\* Pinching hands on either side of the borders of the three tabs, and just
\* inside and just outside the HUD band
TabHands ==
    {Hand(cx, 100, 30, 0, 0, 0) : cx \in {0, 333, 334, 666, 667, 1000}}
        \cup {Hand(500, cy, 30, 0, 0, 0) : cy \in {HudBand - 1, HudBand}}

\* The OK gesture: hands at its thresholds, in every mode and at every time
\* since the last switch
CfgGesture ==
    [hands |-> {EdgeOk, EdgeGap, EdgeMiddle, EdgeRing, EdgePinky},
     noHand |-> FALSE, tabs |-> {},
     bubbleHosts |-> 0, maxBubbles |-> 0,
     bigAmbient |-> {FALSE}, bigAtHand |-> {FALSE},
     maxRain |-> 0, maxSplashDraws |-> 0, maxFlakes |-> MaxFlakes,
     freeRandoms |-> {Swims}, drifts |-> {Tide},
     dropSpeeds |-> {25}, splashVy |-> {-8}, handSplashVy |-> {-8}]

InitGesture == Constructed(SnowWidth, 0)

NextGesture ==
    \/ RenderFrame(CfgGesture)
    \/ LoopFrame(CfgGesture)
    \/ LandmarkerReady(CfgGesture)
    \/ VideoFrame
    \/ Advance

SpecGesture == InitGesture /\ [][NextGesture]_vars

\* The pose signal and the hovered tab: hands around the borders of the tabs and
\* of the pinch, and no hand; one OK gesture switches to the snow
CfgPose ==
    [hands |-> {EdgeOk, EdgeGap} \cup TabHands,
     noHand |-> TRUE, tabs |-> {},
     bubbleHosts |-> 0, maxBubbles |-> 0,
     bigAmbient |-> {FALSE}, bigAtHand |-> {FALSE},
     maxRain |-> 0, maxSplashDraws |-> 0, maxFlakes |-> MaxFlakes,
     freeRandoms |-> {Swims}, drifts |-> {Tide},
     dropSpeeds |-> {25}, splashVy |-> {-8}, handSplashVy |-> {-8}]

InitPose == Constructed(SnowWidth, 0)

NextPose ==
    \/ RenderFrame(CfgPose)
    \/ LoopFrame(CfgPose)
    \/ LandmarkerReady(CfgPose)
    \/ VideoFrame

SpecPose == InitPose /\ [][NextPose]_vars

(***************************************************************************)
(* Claims.                                                                 *)
(***************************************************************************)
IsJelly(p) == p.kind = "jelly"
Following(parts) == {i \in DOMAIN parts : IsJelly(parts[i]) /\ parts[i].state = "FOLLOWING"}
Free(parts) == {i \in DOMAIN parts : IsJelly(parts[i]) /\ parts[i].state = "FREE"}
JellyTicked == obs.info.ticked /\ obs.info.tickMode = JELLYFISH

\* C1: in JELLYFISH mode the number of live jellyfish creatures never exceeds 20,
\* whatever the render ticks and the rising edges of the open hand.
C1_AtMostTwenty == mode = JELLYFISH => Len(particles) <= MaxJellyfish

\* C2: in SNOW mode, with the canvas size fixed, every entry of the snow ground
\* height field is within [0, canvas height] after any landings and meltings.
C2_GroundInRange ==
    (mode = SNOW /\ snowGround # None)
    => \A c \in DOMAIN snowGround[1] :
          0 <= snowGround[1][c] /\ snowGround[1][c] <= 100 * innerHeight

\* C2 witness: a tick in which flakes landed has left a column piled up to the
\* top of the canvas (height entry 0) next to one that is not
C2_Witness ==
    /\ mode = SNOW /\ snowGround # None
    /\ obs.info.ticked /\ obs.info.crossed > 0
    /\ \E c, d \in DOMAIN snowGround[1] :
          snowGround[1][c] = 0 /\ snowGround[1][d] > 0

\* C6: after a jellyfish tick in which the hand is absent, or in which handOpen
\* fell from true to false, no creature is FOLLOWING.
C6_FreedWhenHandGone ==
    [][(/\ JellyTicked'
        /\ \/ ~handData'.isPresent
           \/ mode = mode' /\ wasOpen /\ ~IsOpen(handData'))
       => Following(particles') = {}]_vars

\* C6 witness: a tick has just freed three or more FOLLOWING creatures
C6_Witness ==
    /\ JellyTicked /\ obs.info.freed >= 3
    /\ Following(particles) = {} /\ Cardinality(Free(particles)) >= 3

\* C7: a creature that is FREE is FREE after every later step of its stay in
\* JELLYFISH mode: it never follows the hand again.
C7_FreeForGood ==
    [][(mode = JELLYFISH /\ mode' = JELLYFISH)
       => \A i \in Free(particles) : i \in Free(particles')]_vars

\* C7 witness: the hand is open again and leads new creatures while earlier ones
\* stay FREE
C7_Witness ==
    /\ mode = JELLYFISH /\ IsOpen(handData) /\ wasOpen
    /\ Free(particles) # {} /\ Following(particles) # {}

\* C3: a step that changes the mode (by gesture or by tab) runs the first tick of
\* the new mode on emptied collections, a cleared edge flag and no snow ground:
\* after it the refs hold only what that tick made, and no tick of any mode ever
\* finds an entity, a ground or ripples and splashes left by another mode.
C3_ResetOnSwitch ==
    [][/\ obs'.info.ticked => ~obs'.info.foreign
       /\ mode' # mode =>
            /\ obs'.info.ticked /\ obs'.info.tickMode = mode'
            /\ \A i \in DOMAIN particles' : particles'[i].kind = KindOf(mode')
            /\ Len(particles') <= obs'.info.spawned
            /\ mode' # RAIN => (ripples' = <<>> /\ splashes' = <<>>)
            /\ mode' = RAIN =>
                  /\ \A i \in DOMAIN ripples' : ripples'[i].alpha = RippleAlpha - 1
                  /\ \A i \in DOMAIN splashes' : splashes'[i].life = SplashLife - 1
            /\ mode' # SNOW => snowGround' = None
            /\ mode' = SNOW => snowGround' = Some(FreshGround(innerWidth, innerHeight))
            /\ wasOpen' = (mode' = JELLYFISH /\ IsOpen(handData'))]_vars

\* C3 witness: an OK gesture has switched from JELLYFISH, where the open hand led
\* creatures (three or more and a set edge flag), to SNOW, whose first tick is done
C3_Witness ==
    /\ obs.accepted /\ obs.from = JELLYFISH /\ obs.run = 1 /\ mode = SNOW
    /\ obs.info.left >= 4 /\ obs.info.ticked /\ ~obs.info.foreign
    /\ ~wasOpen /\ Len(particles) = AmbientFlakes

\* the mode that follows m in the cycle JELLYFISH -> SNOW -> RAIN -> JELLYFISH
CycleAfter(m) == TABS[((CHOOSE i \in 1..3 : TABS[i] = m) % 3) + 1]

\* C4: every accepted ModeSwitch moves the mode to its successor in the cycle
\* JELLYFISH -> SNOW -> RAIN -> JELLYFISH, and after three accepted ModeSwitch
\* events in a row (no tab selected in between) from JELLYFISH the mode is
\* JELLYFISH again.
C4_CyclicSwitch ==
    [][/\ obs'.accepted => mode' = CycleAfter(mode)
       /\ (obs'.run = 3 /\ obs'.from = JELLYFISH) => mode' = JELLYFISH]_vars

\* C4 witness: the third accepted ModeSwitch in a row from the initial JELLYFISH
C4_Witness ==
    /\ obs.accepted /\ obs.run = 3 /\ obs.from = JELLYFISH
    /\ mode = JELLYFISH /\ lastSwitchTime = now

\* C5: an OK gesture detected less than 1500 ms after the last accepted switch
\* changes neither the mode nor the debounce timer, and two gesture-driven
\* transitions are at least 1500 ms apart.
C5_Debounce ==
    [][/\ (obs'.ok /\ now - lastSwitchTime < DebounceMs)
          => (~obs'.accepted /\ mode' = mode /\ lastSwitchTime' = lastSwitchTime)
       /\ (obs'.accepted /\ obs.at >= 0) => now' - obs.at >= DebounceMs]_vars

\* C5 witness: an OK gesture is turned down inside the window of an earlier switch
C5_Witness ==
    /\ obs.ok /\ ~obs.accepted
    /\ obs.at >= 0 /\ now - obs.at > 0 /\ now - obs.at < DebounceMs

RainTicked == obs.info.ticked /\ obs.info.tickMode = RAIN
FreshDropRipples(rips) == {i \in DOMAIN rips : rips[i].alpha = RippleAlpha - 1 /\ ~rips[i].isHand}
FreshDropSplashes(spl) == {i \in DOMAIN spl : spl[i].life = SplashLife - 1 /\ spl[i].src = "drop"}

\* C8: in RAIN mode a drop starts at y = -50 with a positive speed and moves down
\* by its speed at every tick; it stays in the collection only while it is not
\* below the water line (so it is gone after at most (waterLevel + 50) / speed + 1
\* ticks), and a tick that takes n drops across the line removes exactly those
\* and makes exactly n ripples and 3 * n splashes for them.
C8_DropBecomesRippleAndSplashes ==
    [][(RainTicked' /\ mode = RAIN) =>
        LET wl == innerHeight - WaterMargin
            moved == [i \in DOMAIN particles |->
                        [particles[i] EXCEPT !.y = @ + particles[i].speed]]
            stay == SelectSeq(moved, LAMBDA p : p.y <= wl)
            n == Len(moved) - Len(stay)
        IN  /\ obs'.info.crossed = n
            /\ Len(particles') = Len(stay) + obs'.info.spawned
            /\ SubSeq(particles', 1, Len(stay)) = stay
            /\ \A i \in DOMAIN particles' :
                  /\ particles'[i].speed > 0
                  /\ particles'[i].y <= wl
                  /\ i > Len(stay) => particles'[i].y = DropStartY + particles'[i].speed
            /\ Cardinality(FreshDropRipples(ripples')) = n
            /\ Cardinality(FreshDropSplashes(splashes')) = 3 * n]_vars

\* C8 witness: two drops have just crossed the water line in one tick and left
\* two ripples and six splashes
C8_Witness ==
    /\ RainTicked /\ mode = RAIN /\ obs.info.crossed = 2 /\ particles = <<>>
    /\ Cardinality(FreshDropRipples(ripples)) = 2
    /\ Cardinality(FreshDropSplashes(splashes)) = 6

\* what is left of a collection of fading values after a tick: each is one step
\* lower, and those that got to 0 or below are gone
StepDown(vals) == SelectSeq([i \in DOMAIN vals |-> vals[i] - 1], LAMBDA a : a > 0)
\* after is what is left of before, then entities made in this tick
FadedInto(before, after, fresh) ==
    /\ Len(after) >= Len(StepDown(before))
    /\ SubSeq(after, 1, Len(StepDown(before))) = StepDown(before)
    /\ \A i \in (Len(StepDown(before)) + 1)..Len(after) : after[i] = fresh
Alphas(rips) == [i \in DOMAIN rips |-> rips[i].alpha]
Lives(spl) == [i \in DOMAIN spl |-> spl[i].life]
BubblesFade ==
    \A i \in DOMAIN particles :
        FadedInto(particles[i].bubbles, particles'[i].bubbles, BubbleAlpha - 1)

\* C9 as claimed: at every tick each ripple's alpha, each splash's life and each
\* bubble's alpha goes down, and the entity leaves its collection at the first
\* tick that brings the value to 0 or below, and only then: what a tick leaves in
\* a collection is what it found there with a value still above 0, one step
\* lower, then what it made itself.
C9_RemovedOnlyAtZero ==
    [][(obs'.info.ticked /\ mode' = mode) =>
        /\ mode = JELLYFISH => BubblesFade
        /\ mode = RAIN => /\ FadedInto(Alphas(ripples), Alphas(ripples'), RippleAlpha - 1)
                          /\ FadedInto(Lives(splashes), Lives(splashes'), SplashLife - 1)]_vars

\* a splash after a tick, and whether it is below the bottom of the canvas then
SplashMoved(q) == [q EXCEPT !.y = @ + q.vy, !.vy = @ + 1, !.life = @ - 1]
InFrame(spl) == SelectSeq(spl, LAMBDA q : ~(SplashMoved(q).y > 2 * innerHeight))

\* C9, amended: as claimed for ripples and bubbles; a splash leaves its
\* collection at the first tick that brings its life to 0 or below or takes it
\* below the bottom of the canvas, whichever comes first, and only then.  No
\* entity stays in a collection with a value of 0 or below.
C9_FadeAndRemove ==
    [][(obs'.info.ticked /\ mode' = mode) =>
        /\ mode = JELLYFISH => BubblesFade
        /\ mode = RAIN =>
              /\ FadedInto(Alphas(ripples), Alphas(ripples'), RippleAlpha - 1)
              /\ FadedInto(Lives(InFrame(splashes)), Lives(splashes'), SplashLife - 1)
              /\ \A i \in DOMAIN splashes' : splashes'[i].y <= 2 * innerHeight
        /\ \A i \in DOMAIN ripples' : ripples'[i].alpha > 0
        /\ \A i \in DOMAIN splashes' : splashes'[i].life > 0
        /\ \A i \in DOMAIN particles' :
              IsJelly(particles'[i]) => \A k \in DOMAIN particles'[i].bubbles :
                                           particles'[i].bubbles[k] > 0]_vars

\* C9 witness: a tick of the rain has just removed a ripple or splash that ran
\* out while others are still fading
C9_Witness ==
    /\ RainTicked /\ obs.info.faded > 0 /\ obs.info.fell = 0
    /\ Len(ripples) + Len(splashes) > 0

\* C10: once the App is unmounted no scheduled callback runs any more: no render
\* tick and no iteration of the detection loop, also when the landmarker
\* finishes initializing only after the unmount.
C10_NothingRunsAfterUnmount ==
    ~(obs.unmounted /\ obs.op \in {"frame", "loop", "start"})

\* the pose published by the last detection tick that ran is the OK sign
HeldOk ==
    /\ handData.isPresent /\ handData.landmarks # None
    /\ IsOkGesture(handData.landmarks[1])

\* C11: a ModeSwitch is emitted only by the detection tick that first finds the
\* OK sign: a tick that finds it while the tick before found it too (the sign
\* is held) never switches the mode, however long the sign has been held.
C11_OnlyFirstDetectionSwitches ==
    [][HeldOk => (~obs'.accepted /\ (obs'.ok => mode' = mode))]_vars

\* C12: an OK gesture detected 1500 ms or more after the last mode switch (1500
\* ms exactly included) switches the mode and sets the debounce timer to the
\* current time.
C12_SwitchAtWindowEnd ==
    [][(obs'.ok /\ now - lastSwitchTime >= DebounceMs)
        => (obs'.accepted /\ mode' = CycleAfter(mode) /\ lastSwitchTime' = now)]_vars

\* C13: a render tick that finds the canvas with width 0 or height 0 skips the
\* simulation: it leaves every entity collection, the snow ground and the edge
\* flag as they are (and raises no error), whatever the mode.
C13_ZeroAreaSkipsTick ==
    [][(obs'.op = "frame" /\ (innerWidth = 0 \/ innerHeight = 0))
        => UNCHANGED <<particles, ripples, splashes, snowGround, wasOpen>>]_vars

\* C14: a detection tick that finds no hand publishes a pose with isPresent
\* false and no landmarks, clears the hovered tab, emits no ModeSwitch and
\* leaves the mode and the debounce timer as they were.
C14_NoHandTick ==
    [][obs'.det = "none" =>
        /\ ~handData'.isPresent /\ handData'.landmarks = None
        /\ hoveredTab' = Null
        /\ ~obs'.accepted /\ mode' = mode /\ lastSwitchTime' = lastSwitchTime]_vars

\* C14 witness: the hand that made the OK sign over the middle tab is gone, more
\* than 1500 ms after the last switch: the pose keeps its position, no tab is
\* hovered any more and the timer still holds the time of that switch
C14_Witness ==
    /\ obs.det = "none" /\ ~handData.isPresent /\ handData.y < HudBand
    /\ hoveredTab = Null
    /\ obs.at >= 0 /\ now - obs.at > DebounceMs /\ lastSwitchTime = obs.at

\* C15: landmark processing happens at most once per video time: detection
\* runs only in an iteration that finds a video time it has not seen, which it
\* then marks as seen, and an iteration that finds the video time of the
\* iteration before runs no detection and changes neither the pose, the hovered
\* tab, the mode nor the debounce timer.
C15_OncePerVideoTime ==
    [][/\ obs'.det \in {"hand", "none"} => (newVideoFrame /\ ~newVideoFrame')
       /\ (obs'.op \in {"loop", "start"} /\ ~newVideoFrame)
            => (obs'.det = "skipped" /\ UNCHANGED appVars)]_vars

\* C15 witness: the loop has come round again on the video time at which it
\* found the OK sign and switched the mode, and has skipped it
C15_Witness ==
    /\ obs.op = "loop" /\ obs.det = "skipped" /\ ~newVideoFrame
    /\ handData.isPresent /\ lastSwitchTime = now /\ obs.run = 1

\* C16: however tab selections and accepted ModeSwitch gestures interleave, a
\* tab selection makes the chosen mode the mode at once, whatever the time since
\* the last switch, and an accepted ModeSwitch makes the mode the successor, in
\* the cycle, of the mode current at that moment.
C16_TabsAndGestures ==
    [][/\ obs'.op = "tab" => (mode' = obs'.from /\ lastSwitchTime' = lastSwitchTime)
       /\ obs'.accepted => (mode' = CycleAfter(mode) /\ obs'.op \in {"loop", "start"})]_vars

\* C16 witness: a ModeSwitch accepted after a tab selection of RAIN (the first
\* gesture since) has made the mode JELLYFISH, the successor of RAIN
C16_Witness ==
    /\ obs.accepted /\ obs.run = 1 /\ obs.from = RAIN /\ mode = JELLYFISH

\* how far apart the landmarks i and j of a hand are, the hand held level
Span(lm, i, j) == Abs(lm[i].x - lm[j].x)
Level(lm) == \A i \in DOMAIN lm : lm[i].y = lm[0].y

\* C17: whether a detection tick finds the OK gesture depends on the landmarks
\* alone: it does exactly when the thumb and index tips are less than 0.06 apart
\* and the middle, ring and pinky tips are more than 0.25, 0.25 and 0.20 from
\* the wrist, whatever the mode, the clock and the frames before; only the
\* switch also needs more than the debounce window to have passed.  (Checked on
\* hands held level, so that the distances are the spans along x.)
C17_OkGestureIsPure ==
    [][obs'.det = "hand" =>
        LET lm == handData'.landmarks[1]
            isOk == /\ Span(lm, 8, 4) < PinchThreshold
                    /\ Span(lm, 12, 0) > MiddleExtended
                    /\ Span(lm, 16, 0) > RingExtended
                    /\ Span(lm, 20, 0) > PinkyExtended
        IN  /\ Level(lm)
            /\ obs'.ok <=> isOk
            /\ obs'.accepted <=> (isOk /\ now - lastSwitchTime > DebounceMs)]_vars

\* C17 witness: the OK sign, each distance one step inside its threshold, is
\* found in RAIN mode inside the debounce window and switches nothing
C17_Witness ==
    /\ obs.ok /\ ~obs.accepted /\ mode = RAIN /\ now - lastSwitchTime < DebounceMs
    /\ handData.landmarks = Some(EdgeOk)

\* C18: the published isPinching is true exactly when the distance between the
\* thumb tip and the index tip, which is the published pinchDistance, is less
\* than 0.06; at 0.06 the hand is not pinching.
C18_PinchBelowThreshold ==
    [][obs'.det = "hand" =>
        LET lm == handData'.landmarks[1]
            d == Span(lm, 8, 4)
        IN  /\ Level(lm)
            /\ handData'.pinchDistance = d
            /\ handData'.isPinching <=> d < PinchThreshold]_vars

\* C18 witness: a hand with the two tips exactly 0.06 apart is published as not
\* pinching
C18_Witness ==
    /\ obs.det = "hand" /\ handData.isPresent
    /\ handData.pinchDistance = PinchThreshold /\ ~handData.isPinching

\* the third of [0, 1] that holds x: 1, 2 or 3
Band(x) == CHOOSE k \in 1..3 : (k - 1) * 1000 <= 3 * x /\ (3 * x < k * 1000 \/ k = 3)

\* C19: while the hand is present with y < 0.20 exactly one tab is hovered, the
\* one whose third of [0, 1] holds the pose's x (the middle tab, index 1 counted
\* from 0, for x = 0.5 and y = 0.1); while y >= 0.20 or the hand is absent no tab
\* is hovered.
C19_HoverBands ==
    /\ hoveredTab = IF handData.isPresent /\ handData.y < HudBand
                    THEN TABS[Band(handData.x)] ELSE Null
    /\ (handData.isPresent /\ handData.x = 500 /\ handData.y = 100)
            => hoveredTab = TABS[2]

\* C19 witness: a present hand just inside the HUD band at x = 0.5 hovers the
\* middle tab, SNOW
C19_Witness ==
    /\ handData.isPresent /\ handData.y = HudBand - 1 /\ handData.x = 500
    /\ hoveredTab = SNOW

\* C20: a jellyfish tick creates creatures exactly when the hand is open
\* (present, not pinching, y >= 0.20), was not open at the tick before in this
\* stay in JELLYFISH mode (or there was none) and fewer than 20 creatures are
\* alive; it then creates 3 or 4, all FOLLOWING.  A tick at which the hand
\* stays open creates none.
C20_SpawnOnRisingEdge ==
    [][JellyTicked' =>
        LET same == mode' = mode
            before == IF same THEN particles ELSE <<>>
            openBefore == same /\ wasOpen
            open == handData'.isPresent /\ ~handData'.isPinching
                        /\ handData'.y >= HudBand
            made == Len(particles') - Len(before)
        IN  /\ made > 0 <=> (open /\ ~openBefore /\ Len(before) < MaxJellyfish)
            /\ made \in {0, 3, 4}
            /\ \A i \in 1..Len(particles') :
                    i > Len(before) => /\ IsJelly(particles'[i])
                                       /\ particles'[i].state = "FOLLOWING"
            /\ wasOpen' = open]_vars

\* C20 witness: the hand has opened again over creatures it freed before: four
\* new ones follow it, and the next tick, the hand still open, has made none
C20_Witness ==
    /\ JellyTicked /\ obs.info.spawned = 0 /\ wasOpen /\ IsOpen(handData)
    /\ Cardinality(Following(particles)) = 4 /\ Cardinality(Free(particles)) >= 3
    /\ Len(particles) < MaxJellyfish

\* C21: at the end of every snow tick, also one that follows a change of the
\* window's width or height, the ground height field has one entry per pixel
\* column of the canvas and every entry is within [0, canvas height].
C21_GroundFitsSurface ==
    (obs.info.ticked /\ mode = SNOW)
    => /\ snowGround # None
       /\ Len(snowGround[1]) = innerWidth
       /\ \A c \in DOMAIN snowGround[1] :
             0 <= snowGround[1][c] /\ snowGround[1][c] <= 100 * innerHeight

\* the ticks a flake of the slowest kind takes from its start above a canvas of
\* height h to the bottom of it
FlakeTicks(h) == ((100 * h - FlakeStartY) \div CreateSnowflake(0, FALSE).vy) + 1

\* C22: every flake, drop, ripple and splash is gone a bounded number of ticks
\* after it was made, so that the collections stay bounded whatever the size of
\* the canvas: no flake is in the air below the bottom of the canvas, where
\* the ticks it takes to the bottom have passed; there are no more flakes than
\* the most a tick makes times those ticks; and likewise for drops, ripples and
\* splashes.
C22_CollectionsBounded ==
    /\ mode = SNOW =>
          /\ \A i \in DOMAIN particles :
                 ~Foreign(particles[i], "flake") => particles[i].y <= 100 * innerHeight
          /\ Len(particles) <= (AmbientFlakes + HandFlakes) * FlakeTicks(innerHeight)
    /\ mode = RAIN =>
          /\ Len(particles) <= 10 * (((innerHeight + 50) \div 20) + 1)
          /\ Len(ripples) <= 11 * RippleAlpha
          /\ Len(splashes) <= 31 * SplashLife

\* C23: melting changes the ground field only at a tick where the hand is
\* present with y > 0.7 x canvas height, and then only entries within 50 columns
\* of the hand's column, each of which it raises, never lowers, and leaves at
\* the canvas height at most; it changes no other entry and nothing at any
\* other tick.  (An entry goes up only by melting; at a tick where no flake
\* lands every change of the field is the melting's.)
C23_MeltOnlyRaises ==
    [][(/\ obs'.info.ticked /\ obs'.info.tickMode = SNOW
        /\ mode = SNOW /\ snowGround # None /\ Len(snowGround[1]) = innerWidth)
       => LET g == snowGround[1]
              g2 == snowGround'[1]
              melts == handData'.isPresent
                          /\ handData'.y * innerHeight > 700 * innerHeight
              hx == (handData'.x * innerWidth) \div 1000
              inBrush(c) == Abs((c - 1) - hx) <= BrushSize
          IN  \A c \in DOMAIN g :
                 /\ g2[c] > g[c] => (melts /\ inBrush(c))
                 /\ (g2[c] < g[c]) => obs'.info.crossed > 0
                 /\ (melts /\ inBrush(c)) => g2[c] <= 100 * innerHeight]_vars

\* the drops a tick has just made: one step below their start
FreshDrops(parts) ==
    {i \in DOMAIN parts : parts[i].kind = "drop"
                            /\ parts[i].y = DropStartY + parts[i].speed}

\* C24: a rain tick makes floor(10 x intensity) drops, where intensity is
\* (pinchDistance - 0.02) x 4 kept within [0, 1] while the hand is open (present,
\* not pinching, y >= 0.20) and 0 otherwise: never more than 10, none when the
\* hand is absent, pinching or in the HUD band, and at least one when it is open.
C24_DropsPerTick ==
    [][RainTicked' =>
        LET hd == handData'
            open == hd.isPresent /\ ~hd.isPinching /\ hd.y >= HudBand
            scaled == (hd.pinchDistance - 20) * 4
            intensity == IF ~open THEN 0
                         ELSE IF scaled < 0 THEN 0
                         ELSE IF scaled > 1000 THEN 1000 ELSE scaled
            n == Cardinality(FreshDrops(particles'))
        IN  /\ n = (10 * intensity) \div 1000
            /\ n = obs'.info.spawned
            /\ n <= 10
            /\ ~open => n = 0
            /\ open => n >= 1]_vars

\* C24 witness: a hand open far beyond full intensity has made 10 drops in a tick
C24_Witness ==
    /\ RainTicked /\ Cardinality(FreshDrops(particles)) = 10
    /\ handData.pinchDistance > 270 /\ IsOpen(handData)

\* the ripples and splashes a tick has just made at the hand
FreshHandRipples(rips) ==
    {i \in DOMAIN rips : rips[i].isHand /\ rips[i].alpha = RippleAlpha - 1}
FreshHandSplashes(spl) ==
    {i \in DOMAIN spl : spl[i].src = "hand" /\ spl[i].life = SplashLife - 1}

\* C25: a rain tick makes a ripple or a splash at the hand only if the hand is
\* present and at most 20 px above the water line, and not below the line: a
\* hand that is absent, more than 20 px above the line or below it makes none.
C25_HandRippleNearWaterOnly ==
    [][RainTicked' =>
        LET wl == innerHeight - WaterMargin
            handY == handData'.y * innerHeight
            near == /\ handData'.isPresent
                    /\ handY > 1000 * (wl - HandRippleBand)
                    /\ handY <= 1000 * wl
        IN  (FreshHandRipples(ripples') # {} \/ FreshHandSplashes(splashes') # {})
                => near]_vars

\* C26: a creature that goes from FOLLOWING to FREE has a velocity other than
\* (0, 0) at the end of the tick that frees it, whatever Math.random() returns.
C26_FreedCreatureMoves ==
    (JellyTicked /\ obs.info.freed > 0) => ~obs.info.still

\* poses of an absent hand: what the fields other than isPresent may still hold
StalePoses ==
    {[x |-> x, y |-> y, isPinching |-> p, pinchDistance |-> d,
      isPresent |-> FALSE, landmarks |-> None] :
        x \in {0, 500}, y \in {100, 200, 900}, p \in BOOLEAN, d \in {30, 70}}

\* C27: while the hand is absent a tick does not depend on the stale x, y,
\* isPinching and pinchDistance of the pose: in every mode, from the same
\* collections and with the same random choices, it has the same results
\* (spawns, creatures freed, melting, ripples and splashes) whatever those
\* fields hold.
C27_StalePoseNotTrusted ==
    [][(obs'.info.ticked /\ ~handData'.isPresent) =>
        LET S == AtEffectStart(SimState, mode' # mode)
            outcomes(hd) == Render(CfgStale, mode', hd, innerWidth, innerHeight, S)
        IN  /\ \E o \in outcomes(handData') :
                  /\ o.particles = particles' /\ o.ripples = ripples'
                  /\ o.splashes = splashes' /\ o.snowGround = snowGround'
                  /\ o.wasOpen = wasOpen'
            /\ \A hd \in StalePoses : outcomes(hd) = outcomes(handData')]_vars

\* C27 witness: the open hand that led creatures is gone; its pose still reads
\* as open (not pinching, below the HUD band), and the tick has freed them
C27_Witness ==
    /\ JellyTicked /\ ~handData.isPresent
    /\ ~handData.isPinching /\ handData.y >= HudBand
    /\ obs.info.freed >= 3 /\ Following(particles) = {}

\* C28: at the end of every jellyfish tick, if any creature is FOLLOWING then
\* the hand was open in that tick (present, not pinching, below the HUD band),
\* and wasOpen is true.
C28_FollowingOnlyWhileOpen ==
    (JellyTicked /\ Following(particles) # {}) => (IsOpen(handData) /\ wasOpen)

\* C28 witness: a tick with the hand open that leaves creatures following it
\* next to creatures an earlier tick has freed
C28_Witness ==
    /\ JellyTicked /\ IsOpen(handData)
    /\ Following(particles) # {} /\ Free(particles) # {}

\* C29: while the mode stays JELLYFISH the creature count never goes down,
\* every spawn adds 3 or 4 and starts from a count of at most 19, the count
\* never exceeds 23, and from a count of 20 or more no creature is created.
C29_CountWithinAStay ==
    [][(mode = JELLYFISH /\ mode' = JELLYFISH) =>
        LET n == Len(particles)
            n2 == Len(particles')
        IN  /\ n2 >= n
            /\ n2 # n => (n2 - n \in {3, 4} /\ n <= MaxJellyfish - 1
                             /\ obs'.info.spawned = n2 - n)
            /\ n2 <= MaxJellyfish + 3
            /\ n >= MaxJellyfish => n2 = n]_vars

\* C29 witness: a spawn of four from nineteen has made the count 23; the
\* creatures have been freed, the hand is open again and the tick creates nothing
C29_Witness ==
    /\ mode = JELLYFISH /\ Len(particles) = MaxJellyfish + 3
    /\ JellyTicked /\ IsOpen(handData) /\ obs.info.spawned = 0
    /\ Free(particles) = DOMAIN particles

\* the Visualizer's render callbacks waiting for an animation frame
RenderCallbacks == {cb \in raf : cb.fn = "render"}

\* C30: whatever the mode changes, pose updates and animation frames, at most
\* one render callback of the Visualizer is pending at any time, and it is the
\* one frameRef names, which the next clean-up of the render effect cancels.
C30_OneRenderLoop ==
    /\ Cardinality(RenderCallbacks) <= 1
    /\ \A cb \in RenderCallbacks : cb.id = frameRef

\* C30 witness: after a change of mode a new pose has re-run the render effect,
\* the detection loop waits for its own frame, and one render callback is pending
C30_Witness ==
    /\ obs.op = "loop" /\ obs.det = "hand" /\ obs.info.ticked
    /\ mode # JELLYFISH
    /\ Cardinality(RenderCallbacks) = 1
    /\ \E cb \in raf : cb.fn = "loop"
====
